---------------------------- MODULE Spec2Model ----------------------------
(***************************************************************************)
(* A model of map_view.py: the /route endpoint (get_best_route), the       *)
(* segment fetcher (find_petrol_pumps) with its thread pool, the Overpass  *)
(* query of one segment (query_overpass), the reverse geocoder             *)
(* (geocode_coordinates) and the route simplifier (simplify_route).        *)
(*                                                                         *)
(* Text is a sequence of characters, so that splitting at "," and float()  *)
(* are computed and not assumed.  A message (an exception's text, an HTTP  *)
(* detail) is a sequence of text tokens.  The remote services are the      *)
(* environment: every call draws its outcome from the repertoire that the  *)
(* world of the run (the variable world) gives that service.               *)
(***************************************************************************)
EXTENDS Integers, Sequences, FiniteSets, TLC

VARIABLES
    start,               \* query parameter start
    destination,         \* query parameter destination
    pc,                  \* position of the request's thread
    start_coords,        \* get_best_route: start_coords, <<>> while unset
    destination_coords,  \* get_best_route: destination_coords
    geocode_log,         \* the calls of the place-search provider: query and outcome
    route_url,           \* the coordinates written into the routing request, <<>> while unsent
    route_reply,         \* the outcome of the routing request, NoOutcome while unsent
    route_geometry,      \* best_route["geometry"]["coordinates"]
    route_coordinates,   \* find_petrol_pumps: route_coordinates
    segment_length,      \* find_petrol_pumps: segment_length
    segments,            \* find_petrol_pumps: segments
    future,              \* one future per submitted segment: its state and its result
    yielded,             \* the futures as_completed has handed to the loop
    cur,                 \* the future whose elements the loop is processing, 0 if none
    idx,                 \* the index of the next element of that future's data
    petrol_pumps,        \* find_petrol_pumps: petrol_pumps
    origin,              \* for each entry of petrol_pumps, the <<segment, element>> it came from
    reverse_log,         \* the reverse-geocoding calls made, in order, with their outcome
    exc,                 \* the exception caught at the endpoint boundary, NoExc if none
    response,            \* what the endpoint answered, NoResponse while it has not
    world                \* the world of this run: what the remote services can answer

vars == <<start, destination, pc, start_coords, destination_coords, geocode_log,
          route_url, route_reply, route_geometry, route_coordinates, segment_length, segments,
          future, yielded, cur, idx, petrol_pumps, origin, reverse_log, exc,
          response, world>>

resolverVars == <<start_coords, destination_coords, geocode_log, route_url, route_reply,
                  route_geometry>>
finderVars == <<route_coordinates, segment_length, segments, future, yielded, cur, idx,
                petrol_pumps, origin, reverse_log>>

---------------------------------------------------------------------------
(* Text, and the parsing of a "lat,lon" literal (lines 160-162).           *)

Digits == {"1", "2"}

DigitVal(c) == IF c = "1" THEN 1 ELSE 2

\* "," in s
HasComma(s) == \E i \in 1..Len(s) : s[i] = ","

\* s.split(","): the pieces between the commas, empty pieces included
RECURSIVE SplitFrom(_, _, _, _)
SplitFrom(s, i, piece, acc) ==
    IF i > Len(s) THEN Append(acc, piece)
    ELSE IF s[i] = "," THEN SplitFrom(s, i + 1, <<>>, Append(acc, piece))
    ELSE SplitFrom(s, i + 1, Append(piece, s[i]), acc)

Split(s) == SplitFrom(s, 1, <<>>, <<>>)

\* float(t) succeeds: t is a non-empty run of digits
IsFloat(t) == Len(t) > 0 /\ \A i \in 1..Len(t) : t[i] \in Digits

\* float(t), for a t that float() accepts
RECURSIVE FloatOf(_)
FloatOf(t) ==
    IF Len(t) = 0 THEN 0
    ELSE 10 * FloatOf(SubSeq(t, 1, Len(t) - 1)) + DigitVal(t[Len(t)])

\* tuple(map(float, s.split(","))) does not raise
Parses(s) == \A k \in 1..Len(Split(s)) : IsFloat(Split(s)[k])

\* the first piece of s that float() rejects
FirstBadPiece(s) ==
    Split(s)[CHOOSE k \in 1..Len(Split(s)) :
                 /\ ~IsFloat(Split(s)[k])
                 /\ \A m \in 1..(k - 1) : IsFloat(Split(s)[m])]

\* tuple(map(float, s.split(","))), for an s that parses
ParseCoords(s) == [k \in 1..Len(Split(s)) |-> FloatOf(Split(s)[k])]

---------------------------------------------------------------------------
(* Exceptions and the endpoint boundary (lines 194-196).                   *)

NoExc == [type |-> "None", status_code |-> 0, detail |-> <<>>]

\* an exception that is not an HTTPException, with its message
Error(type, message) == [type |-> type, status_code |-> 0, detail |-> message]

HTTPException(status_code, detail) ==
    [type |-> "HTTPException", status_code |-> status_code, detail |-> detail]

\* str(e): an HTTPException prints as "<status_code>: <detail>" (Starlette's
\* __str__; releases before it print the empty text), any other exception
\* as its message
Str(e) ==
    IF e.type = "HTTPException" THEN <<ToString(e.status_code), ": ">> \o e.detail
    ELSE e.detail

NoResponse == [status_code |-> 0, detail |-> <<>>, route |-> <<>>, petrol_pumps |-> <<>>]

\* the framework's answer to an HTTPException that leaves the endpoint
ErrorResponse(e) ==
    [status_code |-> e.status_code, detail |-> e.detail, route |-> <<>>, petrol_pumps |-> <<>>]

\* a variant of the boundary that answers a fixed text instead of the cause
BoundaryGeneric(e) == HTTPException(500, <<"Internal Server Error">>)

\* lines 194-196: except Exception as e: raise HTTPException(500, detail=str(e))
Boundary(e) == HTTPException(500, Str(e))

LocationNotFound(location) == <<"Location '">> \o location \o <<"' not found.">>

UnableToFindRoutes == <<"Unable to find routes.">>

\* the messages of the exceptions the libraries raise
TimeoutMsg == <<"Read timed out.">>
StatusMsg(code) == <<ToString(code), " Error">>
KeyErrorMsg(key) == <<"'", key, "'">>
ValueErrorMsg(t) == <<"could not convert string to float: '">> \o t \o <<"'">>
IndexErrorMsg == <<"list index out of range">>

\* response.raise_for_status() raises
IsErrorStatus(code) == code >= 400

---------------------------------------------------------------------------
(* The remote services.  The outcome of one HTTP call is a record: kind is *)
(* "timeout" (requests raises a RequestException before any answer) or     *)
(* "reply": a status code, what response.json() makes of the body          *)
(* ("object", "array", or "invalid" when the body is not JSON) and the     *)
(* parsed body.  A JSON object is a record that has the keys the object    *)
(* has; EmptyDict has none of the keys the program reads.                  *)

EmptyDict == [nothing |-> TRUE]

Timeout(body) == [kind |-> "timeout", code |-> 0, json |-> "invalid", body |-> body]

Reply(code, json, body) == [kind |-> "reply", code |-> code, json |-> json, body |-> body]

\* the place-search provider: no hit, one hit, one hit without "lat",
\* access denied, a server error, no answer in time
GeocoderOutcomes ==
    { Timeout(<<>>),
      Reply(403, "invalid", <<>>),
      Reply(500, "invalid", <<>>),
      Reply(200, "array", <<>>),
      Reply(200, "array", << [lat |-> <<"1", "2">>, lon |-> <<"2", "1">>] >>),
      Reply(200, "array", << [lon |-> <<"2", "1">>] >>) }

\* Coordinates are in units of 0.01 degrees, so that the default tolerance
\* of simplify_route (line 21) is one unit.
tolerance == 1

\* a straight route of n points, every inner point on the line
Straight(n) == [i \in 1..n |-> <<5 * i, 0>>]

\* a route of n points that turns at every point by more than the tolerance
Zigzag(n) == [i \in 1..n |-> <<5 * i, IF i % 2 = 0 THEN 5 ELSE 0>>]

\* the lengths of the routes the routing engine answers with
StraightLen == 3
ZigzagLen == 11

\* a one-point geometry, a straight route and a zigzag route
Geometries == { Straight(1), Straight(StraightLen), Zigzag(ZigzagLen) }

\* the routing engine: a route, no route (in the body, or with the HTTP
\* status OSRM gives it), an empty list of routes, a server error, no answer
RouterOutcomes ==
    { Timeout(EmptyDict),
      Reply(500, "invalid", EmptyDict),
      Reply(400, "object", [code |-> "NoRoute"]),
      Reply(200, "object", [code |-> "NoRoute"]),
      Reply(200, "object", [code |-> "Ok", routes |-> <<>>]) }
    \cup { Reply(200, "object",
                 [code |-> "Ok", routes |-> << [geometry |-> [coordinates |-> g]] >>])
           : g \in Geometries }

\* the elements Overpass answers with: a named station, a station without
\* tags, and an element without "lat"
Shell == [lat |-> 1, lon |-> 1, tags |-> [name |-> "Shell"]]
Untagged == [lat |-> 2, lon |-> 2]
NoLat == [lon |-> 3]

\* the POI source: answers of zero to three elements, a gateway error, no
\* answer in time
OverpassOutcomes ==
    { Timeout(EmptyDict),
      Reply(504, "invalid", EmptyDict),
      Reply(200, "object", [elements |-> <<>>]),
      Reply(200, "object", [elements |-> <<Shell>>]),
      Reply(200, "object", [elements |-> <<Shell, Untagged>>]),
      Reply(200, "object", [elements |-> <<Untagged, NoLat, Shell>>]) }

\* the reverse geocoder: a full address, an address without city and state,
\* no address, a body that is a JSON array, a body that is not JSON, a
\* server error, no answer in time
ReverseOutcomes ==
    { Timeout(EmptyDict),
      Reply(503, "invalid", EmptyDict),
      Reply(200, "invalid", EmptyDict),
      Reply(200, "array", EmptyDict),
      Reply(200, "object", [error |-> "Unable to geocode"]),
      Reply(200, "object", [address |-> [road |-> "Main St"]]),
      Reply(200, "object", [address |-> [road |-> "Main St", city |-> "Pune", state |-> "MH"]]) }

---------------------------------------------------------------------------
(* The functions of map_view.py.  A call's result is a record: raised is   *)
(* the exception it raises (NoExc if it returns) and value what it returns.*)

Return(v) == [raised |-> NoExc, value |-> v]

Raise(e) == [raised |-> e, value |-> <<>>]

\* the exceptions that are requests.RequestException
IsRequestException(e) == e.type \in {"Timeout", "HTTPError", "JSONDecodeError"}

\* requests.get(...), response.raise_for_status(), response.json()
\* (lines 53-55, 77-79, 152-154, 174-176): the exception they raise
Fetch(o) ==
    IF o.kind = "timeout" THEN Error("Timeout", TimeoutMsg)
    ELSE IF IsErrorStatus(o.code) THEN Error("HTTPError", StatusMsg(o.code))
    ELSE IF o.json = "invalid" THEN Error("JSONDecodeError", <<"Expecting value">>)
    ELSE NoExc

\* d.get(key, default)
Get(d, key, default) == IF key \in DOMAIN d THEN d[key] ELSE default

\* a variant of geocode that answers a place without hits with the origin
\* of the coordinates
geocode_lenient(location, o) ==
    IF Fetch(o) /= NoExc THEN Raise(Fetch(o))
    ELSE IF Len(o.body) = 0 THEN Return(<<0, 0>>)
    ELSE IF "lat" \notin DOMAIN o.body[1] THEN Raise(Error("KeyError", KeyErrorMsg("lat")))
    ELSE IF "lon" \notin DOMAIN o.body[1] THEN Raise(Error("KeyError", KeyErrorMsg("lon")))
    ELSE IF ~IsFloat(o.body[1].lat) \/ ~IsFloat(o.body[1].lon)
         THEN Raise(Error("ValueError", ValueErrorMsg(IF IsFloat(o.body[1].lat)
                                                       THEN o.body[1].lon
                                                       ELSE o.body[1].lat)))
    ELSE Return(<<FloatOf(o.body[1].lat), FloatOf(o.body[1].lon)>>)

\* get_best_route.geocode(location), the provider answering o
geocode(location, o) ==
    IF Fetch(o) /= NoExc THEN Raise(Fetch(o))
    ELSE IF Len(o.body) = 0 THEN Raise(HTTPException(400, LocationNotFound(location)))
    ELSE IF "lat" \notin DOMAIN o.body[1] THEN Raise(Error("KeyError", KeyErrorMsg("lat")))
    ELSE IF "lon" \notin DOMAIN o.body[1] THEN Raise(Error("KeyError", KeyErrorMsg("lon")))
    ELSE IF ~IsFloat(o.body[1].lat) \/ ~IsFloat(o.body[1].lon)
         THEN Raise(Error("ValueError", ValueErrorMsg(IF IsFloat(o.body[1].lat)
                                                       THEN o.body[1].lon
                                                       ELSE o.body[1].lat)))
    ELSE Return(<<FloatOf(o.body[1].lat), FloatOf(o.body[1].lon)>>)

\* query_overpass(segment), the POI source answering o
query_overpass(segment, o) ==
    IF Fetch(o) = NoExc THEN Return(o.body)
    ELSE IF IsRequestException(Fetch(o)) THEN Return(EmptyDict)
    ELSE Raise(Fetch(o))

UnknownAddress == [address |-> "Unknown", city |-> "Unknown", state |-> "Unknown"]

\* geocode_coordinates(lat, lon), the reverse geocoder answering o
geocode_coordinates(lat, lon, o) ==
    IF Fetch(o) /= NoExc
    THEN IF IsRequestException(Fetch(o)) THEN Return(UnknownAddress) ELSE Raise(Fetch(o))
    ELSE IF o.json /= "object"
         THEN Raise(Error("AttributeError", <<"'list' object has no attribute 'get'">>))
    ELSE LET address == Get(o.body, "address", EmptyDict)
         IN Return([address |-> Get(address, "road", "Unknown"),
                    city |-> Get(address, "city", "Unknown"),
                    state |-> Get(address, "state", "Unknown")])

Min(a, b) == IF a <= b THEN a ELSE b

\* the Python slice s[i:j], 0 <= i <= j
Slice(s, i, j) == SubSeq(s, i + 1, Min(j, Len(s)))

\* range(0, n, step), as the sequence of its values
Range0(n, step) == [k \in 1..((n + step - 1) \div step) |-> (k - 1) * step]

\* a variant of the segmenter whose windows share their boundary point
SegmentsOverlap(route, n) ==
    [k \in 1..Len(Range0(Len(route), n)) |->
        Slice(route, Range0(Len(route), n)[k], Range0(Len(route), n)[k] + n + 1)]

\* line 101: [route_coordinates[i:i + segment_length]
\*            for i in range(0, len(route_coordinates), segment_length)]
Segments(route, n) ==
    [k \in 1..Len(Range0(Len(route), n)) |->
        Slice(route, Range0(Len(route), n)[k], Range0(Len(route), n)[k] + n)]

---------------------------------------------------------------------------
(* simplify_route (lines 32-34): LineString(...).simplify(tolerance,       *)
(* preserve_topology=True), the Douglas-Peucker reduction of the geometry  *)
(* library.  Distances are compared as squares scaled by the squared       *)
(* length of the base segment, which keeps the arithmetic in the integers. *)

Sq(x) == x * x

Dist2(p, q) == Sq(p[1] - q[1]) + Sq(p[2] - q[2])

\* the scale of the squared distances from the segment a-b
Scale(a, b) == IF a = b THEN 1 ELSE Dist2(a, b)

\* the squared distance of p from the segment a-b, times Scale(a, b)
ScaledDist2(p, a, b) ==
    LET t == (p[1] - a[1]) * (b[1] - a[1]) + (p[2] - a[2]) * (b[2] - a[2])
        cross == (b[1] - a[1]) * (p[2] - a[2]) - (b[2] - a[2]) * (p[1] - a[1])
    IN  IF a = b THEN Dist2(p, a)
        ELSE IF t <= 0 THEN Dist2(p, a) * Dist2(a, b)
        ELSE IF t >= Dist2(a, b) THEN Dist2(p, b) * Dist2(a, b)
        ELSE Sq(cross)

\* the first vertex strictly between i and j that is furthest from the
\* segment route[i]-route[j]
Furthest(route, i, j) ==
    CHOOSE k \in (i + 1)..(j - 1) :
        \A m \in (i + 1)..(j - 1) :
            \/ ScaledDist2(route[m], route[i], route[j]) < ScaledDist2(route[k], route[i], route[j])
            \/ /\ ScaledDist2(route[m], route[i], route[j]) = ScaledDist2(route[k], route[i], route[j])
               /\ k <= m

\* the indices kept in the section i..j, after i and up to j; k is the
\* furthest vertex of the section, found once
RECURSIVE Kept(_, _, _, _)
Kept(route, i, j, tol) ==
    IF j <= i + 1 THEN <<j>>
    ELSE CHOOSE kept \in
             { IF ScaledDist2(route[k], route[i], route[j]) > Sq(tol) * Scale(route[i], route[j])
               THEN Kept(route, i, k, tol) \o Kept(route, k, j, tol)
               ELSE <<j>>
               : k \in {Furthest(route, i, j)} } : TRUE

\* a variant of the reduction that loses the first vertex
simplify_route_open(route, tol) ==
    IF Len(route) = 0 THEN Return(<<>>)
    ELSE IF Len(route) = 1
         THEN Raise(Error("GEOSException", <<"point array must contain 0 or >1 elements">>))
    ELSE LET kept == Kept(route, 1, Len(route), tol)
         IN  Return([n \in 1..Len(kept) |-> route[kept[n]]])

\* simplify_route(route_coordinates, tol): LineString raises for a single
\* point; an empty geometry stays empty
simplify_route(route, tol) ==
    IF Len(route) = 0 THEN Return(<<>>)
    ELSE IF Len(route) = 1
         THEN Raise(Error("GEOSException", <<"point array must contain 0 or >1 elements">>))
    ELSE LET kept == <<1>> \o Kept(route, 1, Len(route), tol)
         IN  Return([n \in 1..Len(kept) |-> route[kept[n]]])

---------------------------------------------------------------------------
(* The state machine.                                                      *)

\* the inputs of a request: two "lat,lon" literals, a place name, a place
\* name with a comma in it
Inputs ==
    { <<"1", ",", "2">>,
      <<"2", "1", ",", "1">>,
      <<"x">>,
      <<"x", ",", "y">> }

\* find_petrol_pumps(route_coordinates, segment_length=10), line 89
DefaultSegmentLength == 10

\* ThreadPoolExecutor(max_workers=10), line 103
max_workers == 10

NoOutcome == [kind |-> "none", code |-> 0, json |-> "invalid", body |-> EmptyDict]

\* a future that was submitted and has not started
Pending == [state |-> "PENDING", result |-> Return(EmptyDict), outcome |-> NoOutcome]

\* every service may answer anything of its repertoire, for every segment
AnyWorld ==
    [geocoder |-> GeocoderOutcomes,
     router |-> RouterOutcomes,
     overpass |-> [s \in 1..ZigzagLen |-> OverpassOutcomes],
     reverse |-> ReverseOutcomes]

\* one point more than the pool has workers
LongRouteLen == max_workers + 1

\* a quiet stretch: its only station lies in the first window, and the
\* services answer
QuietWorld ==
    [geocoder |-> {},
     router |-> {},
     overpass |-> [s \in 1..LongRouteLen |->
                     IF s = 1
                     THEN { Reply(200, "object", [elements |-> <<Shell>>]) }
                     ELSE { Reply(200, "object", [elements |-> <<>>]) }],
     reverse |-> { Reply(200, "object", [address |-> [road |-> "Main St"]]) }]

\* the repertoires of the services in the world w
Services(w) == IF w = "quiet" THEN QuietWorld ELSE AnyWorld

Init ==
    /\ start \in Inputs
    /\ destination \in Inputs
    /\ pc = "parse"
    /\ start_coords = <<>>
    /\ destination_coords = <<>>
    /\ geocode_log = <<>>
    /\ route_url = <<>>
    /\ route_reply = NoOutcome
    /\ route_geometry = <<>>
    /\ route_coordinates = <<>>
    /\ segment_length = DefaultSegmentLength
    /\ segments = <<>>
    /\ future = <<>>
    /\ yielded = {}
    /\ cur = 0
    /\ idx = 0
    /\ petrol_pumps = <<>>
    /\ origin = <<>>
    /\ reverse_log = <<>>
    /\ exc = NoExc
    /\ response = NoResponse
    /\ world = "any"

\* an exception e raised inside the try block of get_best_route: the except
\* clause of line 194 catches it and raises the HTTPException the client gets
Fail(e) ==
    /\ exc' = e
    /\ response' = ErrorResponse(Boundary(e))
    /\ pc' = "responded"

\* line 160: the test for two literals, and lines 161-162
ParseInputs ==
    /\ pc = "parse"
    /\ IF HasComma(start) /\ HasComma(destination)
       THEN IF ~Parses(start)
            THEN /\ Fail(Error("ValueError", ValueErrorMsg(FirstBadPiece(start))))
                 /\ UNCHANGED <<start_coords, destination_coords>>
            ELSE IF ~Parses(destination)
            THEN /\ Fail(Error("ValueError", ValueErrorMsg(FirstBadPiece(destination))))
                 /\ start_coords' = ParseCoords(start)
                 /\ UNCHANGED destination_coords
            ELSE /\ start_coords' = ParseCoords(start)
                 /\ destination_coords' = ParseCoords(destination)
                 /\ pc' = "route"
                 /\ UNCHANGED <<exc, response>>
       ELSE /\ pc' = "geocode_start"
            /\ UNCHANGED <<start_coords, destination_coords, exc, response>>
    /\ UNCHANGED <<start, destination, geocode_log, route_url, route_reply, route_geometry,
                   world>>
    /\ UNCHANGED finderVars

\* line 164: start_coords = geocode(start)
GeocodeStart ==
    /\ pc = "geocode_start"
    /\ \E o \in Services(world).geocoder :
        /\ geocode_log' = Append(geocode_log, [query |-> start, outcome |-> o])
        /\ IF geocode(start, o).raised /= NoExc
           THEN /\ Fail(geocode(start, o).raised)
                /\ UNCHANGED start_coords
           ELSE /\ start_coords' = geocode(start, o).value
                /\ pc' = "geocode_destination"
                /\ UNCHANGED <<exc, response>>
    /\ UNCHANGED <<start, destination, destination_coords, route_url, route_reply,
                   route_geometry, world>>
    /\ UNCHANGED finderVars

\* line 165: destination_coords = geocode(destination)
GeocodeDestination ==
    /\ pc = "geocode_destination"
    /\ \E o \in Services(world).geocoder :
        /\ geocode_log' = Append(geocode_log, [query |-> destination, outcome |-> o])
        /\ IF geocode(destination, o).raised /= NoExc
           THEN /\ Fail(geocode(destination, o).raised)
                /\ UNCHANGED destination_coords
           ELSE /\ destination_coords' = geocode(destination, o).value
                /\ pc' = "route"
                /\ UNCHANGED <<exc, response>>
    /\ UNCHANGED <<start, destination, start_coords, route_url, route_reply, route_geometry,
                   world>>
    /\ UNCHANGED finderVars

\* a variant of the routing request with latitude before longitude
RouteUrlLatFirst(from, to) == <<from[1], from[2], to[1], to[2]>>

\* line 168: the coordinates in route_url, longitude before latitude
RouteUrl(from, to) == <<from[2], from[1], to[2], to[1]>>

\* lines 168-183: the routing request and the reading of its answer
QueryRoute ==
    /\ pc = "route"
    /\ route_url' = RouteUrl(start_coords, destination_coords)
    /\ \E o \in Services(world).router :
        /\ route_reply' = o
        /\ IF Fetch(o) /= NoExc
           THEN Fail(Fetch(o)) /\ UNCHANGED route_geometry
           ELSE IF Get(o.body, "code", "None") /= "Ok"
           THEN Fail(HTTPException(400, UnableToFindRoutes)) /\ UNCHANGED route_geometry
           ELSE IF "routes" \notin DOMAIN o.body
           THEN Fail(Error("KeyError", KeyErrorMsg("routes"))) /\ UNCHANGED route_geometry
           ELSE IF Len(o.body.routes) = 0
           THEN Fail(Error("IndexError", IndexErrorMsg)) /\ UNCHANGED route_geometry
           ELSE /\ route_geometry' = o.body.routes[1].geometry.coordinates
                /\ pc' = "simplify"
                /\ UNCHANGED <<exc, response>>
    /\ UNCHANGED <<start, destination, start_coords, destination_coords, geocode_log, world>>
    /\ UNCHANGED finderVars

\* a call simplify_route(route_geometry, tol) whose result becomes the
\* route_coordinates of find_petrol_pumps
SimplifyWith(tol) ==
    /\ pc = "simplify"
    /\ IF simplify_route(route_geometry, tol).raised /= NoExc
       THEN /\ Fail(simplify_route(route_geometry, tol).raised)
            /\ UNCHANGED route_coordinates
       ELSE /\ route_coordinates' = simplify_route(route_geometry, tol).value
            /\ pc' = "find"
            /\ UNCHANGED <<exc, response>>
    /\ UNCHANGED <<start, destination, world>>
    /\ UNCHANGED resolverVars
    /\ UNCHANGED <<segment_length, segments, future, yielded, cur, idx, petrol_pumps,
                   origin, reverse_log>>

\* line 184: simplified_route = simplify_route(route_geometry), with the
\* default tolerance; line 187 passes it to find_petrol_pumps
SimplifyRoute == SimplifyWith(tolerance)

---------------------------------------------------------------------------
(* find_petrol_pumps (lines 100-125).  The pool runs the submitted tasks   *)
(* in the order of their submission, at most max_workers at a time; the    *)
(* thread of the request runs the as_completed loop.                       *)

requestVars == <<start, destination, exc, response, world>>

\* lines 100-104: the segments, and one submitted task for each
SubmitSegments ==
    /\ pc = "find"
    /\ petrol_pumps' = <<>>
    /\ segments' = Segments(route_coordinates, segment_length)
    /\ future' = [s \in 1..Len(Segments(route_coordinates, segment_length)) |-> Pending]
    /\ pc' = "as_completed"
    /\ UNCHANGED <<route_coordinates, segment_length, yielded, cur, idx, origin, reverse_log>>
    /\ UNCHANGED requestVars
    /\ UNCHANGED resolverVars

Running == {s \in 1..Len(future) : future[s].state = "RUNNING"}

\* a variant of the pool that starts a thread for every task
WorkerFreeUnbounded == TRUE

\* a worker of the pool is idle
WorkerFree == Cardinality(Running) < max_workers

\* a worker takes the task at the head of the pool's queue
StartTask(s) ==
    /\ pc = "as_completed"
    /\ future[s].state = "PENDING"
    /\ \A t \in 1..(s - 1) : future[t].state /= "PENDING"
    /\ WorkerFree
    /\ future' = [future EXCEPT ![s].state = "RUNNING"]
    /\ UNCHANGED <<pc, route_coordinates, segment_length, segments, yielded, cur, idx,
                   petrol_pumps, origin, reverse_log>>
    /\ UNCHANGED requestVars
    /\ UNCHANGED resolverVars

\* a variant of the task that enters the elements of its answer into the
\* list of the request itself
FinishTaskAppending(s) ==
    /\ pc = "as_completed"
    /\ future[s].state = "RUNNING"
    /\ \E o \in Services(world).overpass[s] :
        /\ future' = [future EXCEPT ![s] = [state |-> "FINISHED",
                                            result |-> query_overpass(segments[s], o),
                                            outcome |-> o]]
        /\ petrol_pumps' = petrol_pumps \o Get(query_overpass(segments[s], o).value, "elements", <<>>)
    /\ UNCHANGED <<pc, route_coordinates, segment_length, segments, yielded, cur, idx,
                   origin, reverse_log>>
    /\ UNCHANGED requestVars
    /\ UNCHANGED resolverVars

\* the worker's call of query_overpass(segment) ends: lines 52-58
FinishTask(s) ==
    /\ pc = "as_completed"
    /\ future[s].state = "RUNNING"
    /\ \E o \in Services(world).overpass[s] :
        future' = [future EXCEPT ![s] = [state |-> "FINISHED",
                                         result |-> query_overpass(segments[s], o),
                                         outcome |-> o]]
    /\ UNCHANGED <<pc, route_coordinates, segment_length, segments, yielded, cur, idx,
                   petrol_pumps, origin, reverse_log>>
    /\ UNCHANGED requestVars
    /\ UNCHANGED resolverVars

\* a variant of the loop that reads the elements from the last to the first
ElementsReversed(f) ==
    LET e == Get(f.result.value, "elements", <<>>)
    IN  [i \in 1..Len(e) |-> e[Len(e) + 1 - i]]

\* data.get("elements", []) of a finished future
Elements(f) == Get(f.result.value, "elements", <<>>)

\* a variant of the loop that takes a future as soon as it has started
CompletedOrRunning(f) == f.state /= "PENDING"

\* a variant of the loop that waits for an answer of the source: a future
\* whose call timed out is never handed out
CompletedUnlessTimedOut(f) == f.state = "FINISHED" /\ f.outcome.kind /= "timeout"

\* line 105: as_completed hands out a future when its task has ended
Completed(f) == f.state = "FINISHED"

\* lines 105-108: as_completed hands a finished future to the loop, which
\* takes its result; an exception of the task is caught at line 122
Yield(s) ==
    /\ pc = "as_completed"
    /\ cur = 0
    /\ s \notin yielded
    /\ Completed(future[s])
    /\ yielded' = yielded \cup {s}
    /\ IF future[s].result.raised = NoExc /\ Len(Elements(future[s])) > 0
       THEN cur' = s /\ idx' = 1
       ELSE cur' = 0 /\ idx' = 0
    /\ UNCHANGED <<pc, route_coordinates, segment_length, segments, future,
                   petrol_pumps, origin, reverse_log>>
    /\ UNCHANGED requestVars
    /\ UNCHANGED resolverVars

\* lines 111-115 and 119: pump_info, updated with the address
PumpInfo(element, address_data) ==
    [name |-> Get(Get(element, "tags", EmptyDict), "name", "Unknown"),
     latitude |-> element.lat,
     longitude |-> element.lon,
     address |-> address_data.address,
     city |-> address_data.city,
     state |-> address_data.state]

\* a variant of the loop that skips a pump the list already has
AppendPumpOnce(pumps, pump_info) ==
    IF \E j \in 1..Len(pumps) : pumps[j] = pump_info THEN pumps ELSE Append(pumps, pump_info)

\* line 121: petrol_pumps.append(pump_info)
AppendPump(pumps, pump_info) == Append(pumps, pump_info)

\* the loop goes on to the next element, or leaves the future
NextElement ==
    IF idx < Len(Elements(future[cur]))
    THEN idx' = idx + 1 /\ UNCHANGED cur
    ELSE idx' = 0 /\ cur' = 0

\* a variant of the loop that catches the exception of an element inside
\* the inner loop and goes on with the next element
CaughtInsideLoop == NextElement

\* leaving the try block by an exception (lines 122-123): the rest of the
\* future's elements is not processed
Caught == idx' = 0 /\ cur' = 0

\* lines 108-121, one pass of the inner loop: reads the element, calls
\* geocode_coordinates and appends the pump
ProcessElement ==
    /\ pc = "as_completed"
    /\ cur /= 0
    /\ LET element == Elements(future[cur])[idx]
       IN  IF "lat" \notin DOMAIN element \/ "lon" \notin DOMAIN element
           THEN /\ Caught
                /\ UNCHANGED <<petrol_pumps, origin, reverse_log>>
           ELSE \E o \in Services(world).reverse :
                /\ reverse_log' = Append(reverse_log, [seg |-> cur, elem |-> idx, outcome |-> o])
                /\ IF geocode_coordinates(element.lat, element.lon, o).raised /= NoExc
                   THEN /\ Caught
                        /\ UNCHANGED <<petrol_pumps, origin>>
                   ELSE /\ petrol_pumps' =
                              AppendPump(petrol_pumps,
                                         PumpInfo(element,
                                                  geocode_coordinates(element.lat, element.lon, o).value))
                        /\ origin' = Append(origin, <<cur, idx>>)
                        /\ NextElement
    /\ UNCHANGED <<pc, route_coordinates, segment_length, segments, future, yielded>>
    /\ UNCHANGED requestVars
    /\ UNCHANGED resolverVars

\* a variant of find_petrol_pumps that returns between two futures without
\* waiting for the tasks that are left
ReturnPumpsEarly ==
    /\ pc = "as_completed"
    /\ cur = 0
    /\ pc' = "returned"
    /\ UNCHANGED finderVars
    /\ UNCHANGED requestVars
    /\ UNCHANGED resolverVars

\* lines 103 and 125: the loop has seen every future, the with block shuts
\* the pool down and find_petrol_pumps returns petrol_pumps
ReturnPumps ==
    /\ pc = "as_completed"
    /\ cur = 0
    /\ yielded = 1..Len(future)
    /\ pc' = "returned"
    /\ UNCHANGED finderVars
    /\ UNCHANGED requestVars
    /\ UNCHANGED resolverVars

\* lines 189-192: the answer of the endpoint
Respond ==
    /\ pc = "returned"
    /\ response' = [status_code |-> 200, detail |-> <<>>,
                    route |-> route_coordinates, petrol_pumps |-> petrol_pumps]
    /\ pc' = "responded"
    /\ UNCHANGED <<start, destination, exc, world>>
    /\ UNCHANGED finderVars
    /\ UNCHANGED resolverVars

Next ==
    \/ ParseInputs
    \/ GeocodeStart
    \/ GeocodeDestination
    \/ QueryRoute
    \/ SimplifyRoute
    \/ SubmitSegments
    \/ \E s \in 1..Len(future) : StartTask(s)
    \/ \E s \in 1..Len(future) : FinishTask(s)
    \/ \E s \in 1..Len(future) : Yield(s)
    \/ ProcessElement
    \/ ReturnPumps
    \/ Respond

Spec == Init /\ [][Next]_vars

\* The thread of the request and the workers of the pool go on running, and
\* every call of a service ends, by its timeout of 10 seconds at the latest
\* (lines 53, 77, 152, 174): a step that is possible is taken.
FairSpec == Spec /\ WF_vars(Next)

---------------------------------------------------------------------------
(* find_petrol_pumps called on its own, with any route of a few points and *)
(* any window size, and with a route of more windows than the pool has     *)
(* workers, in the quiet world.                                            *)

MaxRouteLen == 3
MaxWindow == 3

Points == { <<0, 0>>, <<5, 0>> }

ShortRoutes == UNION { [1..n -> Points] : n \in 0..MaxRouteLen }

InitFind ==
    /\ start = <<>>
    /\ destination = <<>>
    /\ pc = "find"
    /\ start_coords = <<>>
    /\ destination_coords = <<>>
    /\ geocode_log = <<>>
    /\ route_url = <<>>
    /\ route_reply = NoOutcome
    /\ route_geometry = <<>>
    /\ route_coordinates \in ShortRoutes \cup { Zigzag(LongRouteLen) }
    /\ segment_length \in 1..MaxWindow
    /\ segments = <<>>
    /\ future = <<>>
    /\ yielded = {}
    /\ cur = 0
    /\ idx = 0
    /\ petrol_pumps = <<>>
    /\ origin = <<>>
    /\ reverse_log = <<>>
    /\ exc = NoExc
    /\ response = NoResponse
    /\ world = "quiet"

NextFind ==
    \/ SubmitSegments
    \/ \E s \in 1..Len(future) : StartTask(s)
    \/ \E s \in 1..Len(future) : FinishTask(s)
    \/ \E s \in 1..Len(future) : Yield(s)
    \/ ProcessElement
    \/ ReturnPumps

FindSpec == InitFind /\ [][NextFind]_vars

---------------------------------------------------------------------------
(* simplify_route called on its own, with any polyline of a few points on  *)
(* a small grid and any tolerance of a few units.                          *)

GridMax == 2
MaxPolyLen == 4
MaxTolerance == 2

\* the points of two rows of a grid
GridPoints == (0..GridMax) \X {0, 1}

Polylines == UNION { [1..n -> GridPoints] : n \in 0..MaxPolyLen }

Tolerances == 0..MaxTolerance

InitSimplify ==
    /\ start = <<>>
    /\ destination = <<>>
    /\ pc = "simplify"
    /\ start_coords = <<>>
    /\ destination_coords = <<>>
    /\ geocode_log = <<>>
    /\ route_url = <<>>
    /\ route_reply = NoOutcome
    /\ route_geometry \in Polylines
    /\ route_coordinates = <<>>
    /\ segment_length = DefaultSegmentLength
    /\ segments = <<>>
    /\ future = <<>>
    /\ yielded = {}
    /\ cur = 0
    /\ idx = 0
    /\ petrol_pumps = <<>>
    /\ origin = <<>>
    /\ reverse_log = <<>>
    /\ exc = NoExc
    /\ response = NoResponse
    /\ world = "quiet"

NextSimplify == \E tol \in Tolerances : SimplifyWith(tol)

SimplifySpec == InitSimplify /\ [][NextSimplify]_vars

---------------------------------------------------------------------------
(* The claims about the endpoint, checked under Spec.                      *)

\* the text t occurs in the message m
Names(m, t) == \E k \in 1..Len(m) : SubSeq(m, k, k + Len(t) - 1) = t

\* the place-search provider answered with an empty list of hits
ZeroResults(o) == o.kind = "reply" /\ ~IsErrorStatus(o.code) /\ o.json = "array" /\ Len(o.body) = 0

\* the place-search provider denied access
AccessDenied(o) == o.kind = "reply" /\ o.code = 403

\* the routing engine answered with a body whose code is not "Ok"
NotOkBody(o) == o.kind = "reply" /\ o.json = "object" /\ Get(o.body, "code", "None") /= "Ok"

Responded == pc = "responded"

\* C1: when a place name is forward-geocoded and the provider returns zero
\* results for it, the endpoint answers HTTP 400 with a detail that names
\* the location.
C1_ZeroResultsIs400 ==
    \A k \in 1..Len(geocode_log) :
        Responded /\ ZeroResults(geocode_log[k].outcome)
            => /\ response.status_code = 400
               /\ Names(response.detail, geocode_log[k].query)

\* C2: when the routing engine answers with a body whose code is not "Ok",
\* the endpoint answers HTTP 400 with the "no route found" detail.
C2_NoRouteIs400 ==
    Responded /\ NotOkBody(route_reply)
        => /\ response.status_code = 400
           /\ response.detail = UnableToFindRoutes

\* C3: when the place-search provider denies access, the endpoint answers
\* HTTP 403, an outcome of its own next to 400 and 500.
C3_AccessDeniedIs403 ==
    \A k \in 1..Len(geocode_log) :
        Responded /\ AccessDenied(geocode_log[k].outcome) => response.status_code = 403

\* the request failed, and not for a place without hits, a denied access or
\* a route that was not found
Unclassified ==
    /\ exc /= NoExc
    /\ exc.type /= "HTTPException"
    /\ \A k \in 1..Len(geocode_log) : ~AccessDenied(geocode_log[k].outcome)

\* C10: every other failure of a request is caught at the endpoint boundary
\* and answered as HTTP 500 whose detail is the message of its cause; a
\* request that has been answered was answered 200 exactly if nothing was
\* raised, and no exception of the fan-out reaches the boundary.
C10_UnclassifiedIs500 ==
    /\ Responded /\ Unclassified
           => response.status_code = 500 /\ response.detail = exc.detail
    /\ Responded => (exc = NoExc <=> response.status_code = 200)
    /\ exc /= NoExc => Responded /\ future = <<>>

\* a request whose routing request timed out has been answered
C10_Witness ==
    /\ Responded
    /\ Unclassified
    /\ route_reply.kind = "timeout"
    /\ exc.type = "Timeout"

\* find_petrol_pumps has returned its list
FindReturned == pc = "returned" \/ (Responded /\ exc = NoExc)

\* the spatial query of a finished task failed: no answer in time, a
\* transport error or a status that is not 2xx
QueryFailed(f) == f.state = "FINISHED" /\ (f.outcome.kind = "timeout" \/ IsErrorStatus(f.outcome.code))

\* the element is a POI: it has its coordinates
IsPOI(element) == "lat" \in DOMAIN element /\ "lon" \in DOMAIN element

\* the entries of petrol_pumps that come from segment s
PumpsOf(s) == {j \in 1..Len(origin) : origin[j][1] = s}

\* the POI that is element i of the answer for segment s is in petrol_pumps
InResult(s, i) == \E j \in 1..Len(origin) : origin[j] = <<s, i>>

\* C4: when the spatial query of some segments fails, find_petrol_pumps
\* returns a list in which a failed segment has no POI and every segment
\* whose query succeeded has all the POIs of its answer.
C4_OtherSegmentsKept ==
    FindReturned /\ (\E s \in 1..Len(future) : QueryFailed(future[s]))
        => \A s \in 1..Len(future) :
               IF QueryFailed(future[s])
               THEN PumpsOf(s) = {}
               ELSE \A i \in 1..Len(future[s].outcome.body.elements) :
                        IsPOI(future[s].outcome.body.elements[i]) => InResult(s, i)

\* the reverse-geocoding call failed: no answer in time, a status that is
\* not 2xx, or a payload that is not a JSON object
ReverseFailed(o) == o.kind = "timeout" \/ IsErrorStatus(o.code) \/ o.json /= "object"

\* C5: a POI whose reverse-geocoding call failed (timeout, non-2xx status,
\* malformed payload) is in petrol_pumps with address, city and state all
\* "Unknown".
C5_FailedEnrichmentIsUnknown ==
    \A k \in 1..Len(reverse_log) :
        ReverseFailed(reverse_log[k].outcome)
            => \E j \in 1..Len(origin) :
                   /\ origin[j] = <<reverse_log[k].seg, reverse_log[k].elem>>
                   /\ petrol_pumps[j].address = "Unknown"
                   /\ petrol_pumps[j].city = "Unknown"
                   /\ petrol_pumps[j].state = "Unknown"

AllFinished == \A s \in 1..Len(future) : future[s].state = "FINISHED"

\* C6, as the spec states it: no reverse-geocoding call is made while a
\* submitted segment task is still queued or running.
C6_NoEnrichmentBeforeAllFinished == reverse_log /= <<>> => AllFinished

\* C6, amended: a reverse-geocoding call for a POI is made only after the
\* task of the POI's own segment has finished (other tasks may still be
\* queued or running), and find_petrol_pumps returns only after every
\* submitted task has finished.
C6_EnrichmentAfterOwnTask ==
    /\ \A k \in 1..Len(reverse_log) : future[reverse_log[k].seg].state = "FINISHED"
    /\ cur /= 0 => future[cur].state = "FINISHED"
    /\ FindReturned => AllFinished

\* a POI has been enriched while another segment's task was still running
C6_Witness ==
    /\ reverse_log /= <<>>
    /\ petrol_pumps /= <<>>
    /\ \E s \in 1..Len(future) : future[s].state = "RUNNING"

\* the coordinates that the literals among Inputs denote, as <<lat, lon>>
LiteralValue(s) ==
    CASE s = <<"1", ",", "2">> -> <<1, 2>>
      [] s = <<"2", "1", ",", "1">> -> <<21, 1>>
      [] OTHER -> <<>>

BothLiteral == LiteralValue(start) /= <<>> /\ LiteralValue(destination) /= <<>>

\* C8: when start and destination are both "lat,lon" literals, no forward
\* geocoding call is made at any point of the request, and the routing
\* request is sent with exactly the coordinates the two literals denote.
C8_LiteralsSkipGeocoding ==
    BothLiteral
        => /\ geocode_log = <<>>
           /\ pc \notin {"parse", "route"} =>
                  route_url = <<LiteralValue(start)[2], LiteralValue(start)[1],
                                LiteralValue(destination)[2], LiteralValue(destination)[1]>>
           /\ pc \in {"parse", "route"} => route_url = <<>>

\* a request with two different literals has been answered with a route
C8_Witness ==
    /\ BothLiteral
    /\ start /= destination
    /\ Responded
    /\ response.status_code = 200
    /\ route_url /= <<>>

---------------------------------------------------------------------------
(* The claims about the segmenter and the pool, checked under FindSpec.    *)

\* the concatenation of the sequences of ss, in order
RECURSIVE Flatten(_)
Flatten(ss) ==
    IF Len(ss) = 0 THEN <<>>
    ELSE Flatten(SubSeq(ss, 1, Len(ss) - 1)) \o ss[Len(ss)]

\* C7: for every route and every window size >= 1 the segments are windows
\* of at most window-size points whose concatenation, in order, is the
\* route: no point lost, duplicated or reordered; only the last window may
\* be shorter, and an empty route has no segment.
C7_SegmentsPartitionRoute ==
    pc /= "find"
        => /\ Flatten(segments) = route_coordinates
           /\ \A k \in 1..Len(segments) :
                  Len(segments[k]) >= 1 /\ Len(segments[k]) <= segment_length
           /\ \A k \in 1..(Len(segments) - 1) : Len(segments[k]) = segment_length
           /\ Len(route_coordinates) = 0 => Len(segments) = 0

\* a route was cut into several windows, the last of them shorter
C7_Witness ==
    /\ pc /= "find"
    /\ Len(segments) >= 2
    /\ Len(segments[Len(segments)]) < segment_length

Finished == {s \in 1..Len(future) : future[s].state = "FINISHED"}

\* C9: at every moment at most max_workers (10) spatial queries are in
\* flight, also with more than 10 segments; a segment beyond the first 10
\* is started only after enough earlier tasks have ended to free a worker.
C9_PoolBoundsQueries ==
    /\ Cardinality(Running) <= max_workers
    /\ \A s \in 1..Len(future) :
           future[s].state /= "PENDING" /\ s > max_workers
               => Cardinality(Finished \ {s}) >= s - max_workers

\* more segments than workers: every worker is busy and a segment waits
C9_Witness ==
    /\ Len(future) > max_workers
    /\ Cardinality(Running) = max_workers
    /\ \E s \in 1..Len(future) : future[s].state = "PENDING"

---------------------------------------------------------------------------
(* The claims about the list that find_petrol_pumps returns, checked under *)
(* Spec.                                                                   *)

\* the spatial query of the finished task s succeeded
QuerySucceeded(s) == future[s].state = "FINISHED" /\ ~QueryFailed(future[s])

\* the element lists the source answered, for the segments that succeeded
Answered(s) == IF QuerySucceeded(s) THEN future[s].outcome.body.elements ELSE <<>>

\* the entry j of petrol_pumps is the record made of element i of the
\* answer for segment s
MadeOf(j, s, i) ==
    /\ origin[j] = <<s, i>>
    /\ i \in 1..Len(Answered(s))
    /\ IsPOI(Answered(s)[i])
    /\ petrol_pumps[j].latitude = Answered(s)[i].lat
    /\ petrol_pumps[j].longitude = Answered(s)[i].lon
    /\ petrol_pumps[j].name = Get(Get(Answered(s)[i], "tags", EmptyDict), "name", "Unknown")

\* C11: the list find_petrol_pumps returns is, as a multiset, the merge of
\* the element lists answered by all segments whose query succeeded: every
\* answered element is in it once per occurrence, no entry is invented, and
\* an element answered for two segments is in it twice.
C11_ResultIsMergeOfAnswers ==
    FindReturned
        => /\ Len(petrol_pumps) = Len(origin)
           /\ \A s \in 1..Len(future) : \A i \in 1..Len(Answered(s)) :
                  Cardinality({j \in 1..Len(petrol_pumps) : MadeOf(j, s, i)}) = 1
           /\ \A j \in 1..Len(petrol_pumps) :
                  \E s \in 1..Len(future) : \E i \in 1..Len(Answered(s)) : MadeOf(j, s, i)

\* the entries j and k of petrol_pumps are the same POI
SamePOI(j, k) ==
    /\ petrol_pumps[j].latitude = petrol_pumps[k].latitude
    /\ petrol_pumps[j].longitude = petrol_pumps[k].longitude
    /\ petrol_pumps[j].name = petrol_pumps[k].name

\* C12, as the spec states it: the result is deduplicated, the petrol_pumps
\* list of a response never contains the same POI twice, also when the
\* windows of two segments both report it.
C12_NoPOITwice ==
    Responded /\ response.status_code = 200
        => \A j, k \in 1..Len(response.petrol_pumps) :
               j /= k => ~SamePOI(j, k)

\* C12, amended: the result is not deduplicated.  The list has one entry
\* for every element occurrence that was read and enriched, in the order of
\* the appends; no occurrence is entered twice, and a POI that two segments
\* report is in the list once for each of them.
C12_OneEntryPerOccurrence ==
    /\ Len(petrol_pumps) = Len(origin)
    /\ \A j \in 1..Len(origin) :
           MadeOf(j, origin[j][1], origin[j][2])
    /\ \A j, k \in 1..Len(origin) : origin[j] = origin[k] => j = k
    /\ Responded /\ response.status_code = 200 => response.petrol_pumps = petrol_pumps

\* a response whose list has the same POI twice, reported by two segments
C12_Witness ==
    /\ Responded
    /\ response.status_code = 200
    /\ \E j, k \in 1..Len(response.petrol_pumps) :
           /\ j /= k
           /\ response.petrol_pumps[j] = response.petrol_pumps[k]
           /\ origin[j][1] /= origin[k][1]

---------------------------------------------------------------------------
(* The claim about the simplifier, checked under SimplifySpec.             *)

\* the points of a are points of b, in the order they have in b
RECURSIVE IsSubsequence(_, _)
IsSubsequence(a, b) ==
    IF Len(a) = 0 THEN TRUE
    ELSE IF Len(b) = 0 THEN FALSE
    ELSE IF a[1] = b[1] THEN IsSubsequence(Tail(a), Tail(b))
    ELSE IsSubsequence(a, Tail(b))

\* simplify_route has returned for a polyline of at least two points
Simplified == pc = "find" /\ Len(route_geometry) >= 2

\* C13: for every polyline of at least two points and every tolerance >= 0
\* simplify_route returns a polyline that starts and ends where the input
\* does, has at most as many vertices, has only vertices of the input in
\* their order of traversal, and is not empty.
C13_SimplifiedKeepsEnds ==
    /\ Len(route_geometry) >= 2 => pc \in {"simplify", "find"} /\ exc = NoExc
    /\ Simplified
           => /\ Len(route_coordinates) >= 1
              /\ route_coordinates[1] = route_geometry[1]
              /\ route_coordinates[Len(route_coordinates)] = route_geometry[Len(route_geometry)]
              /\ Len(route_coordinates) <= Len(route_geometry)
              /\ IsSubsequence(route_coordinates, route_geometry)

\* a polyline that lost one of its inner vertices and kept another
C13_Witness ==
    /\ Simplified
    /\ Len(route_geometry) = MaxPolyLen
    /\ Len(route_coordinates) > 2
    /\ Len(route_coordinates) < Len(route_geometry)

\* C14: the POIs of one segment are in petrol_pumps in the order of that
\* segment's source response, whatever the order in which the tasks end;
\* the order of completion only changes the relative order of the POIs of
\* different segments.
C14_SegmentOrderKept ==
    /\ \A j, k \in 1..Len(origin) :
           j < k /\ origin[j][1] = origin[k][1] => origin[j][2] < origin[k][2]
    /\ \A j \in 1..Len(origin) :
           LET s == origin[j][1]
               i == origin[j][2]
           IN  /\ i \in 1..Len(future[s].outcome.body.elements)
               /\ petrol_pumps[j].latitude = future[s].outcome.body.elements[i].lat
               /\ petrol_pumps[j].longitude = future[s].outcome.body.elements[i].lon

\* the second segment's task ended first: its two POIs are in the returned
\* list before the POIs of the first segment
C14_Witness ==
    /\ FindReturned
    /\ Len(origin) >= 4
    /\ origin[1] = <<2, 1>>
    /\ origin[2] = <<2, 2>>
    /\ origin[3] = <<1, 1>>
    /\ origin[4] = <<1, 2>>

---------------------------------------------------------------------------
(* The claims about the course of a request, checked under Spec.           *)

\* the place-search provider answered with a hit that has coordinates
Hit(o) ==
    /\ o.kind = "reply"
    /\ ~IsErrorStatus(o.code)
    /\ o.json = "array"
    /\ Len(o.body) >= 1
    /\ "lat" \in DOMAIN o.body[1]
    /\ "lon" \in DOMAIN o.body[1]

\* the routing request has been sent
RoutingIssued == route_url /= <<>>

\* the routing engine answered with status "Ok"
RoutingOk ==
    /\ route_reply.kind = "reply"
    /\ ~IsErrorStatus(route_reply.code)
    /\ route_reply.json = "object"
    /\ Get(route_reply.body, "code", "None") = "Ok"

\* a spatial query or a reverse-geocoding call has been issued
FanOutIssued ==
    \/ \E s \in 1..Len(future) : future[s].state /= "PENDING"
    \/ reverse_log /= <<>>

\* C15: the stages run in the order resolve, route, simplify, fetch, enrich
\* and a failure of resolution or routing aborts the request: the routing
\* request is sent only when both endpoints are resolved, and a spatial
\* query or a reverse-geocoding call is issued only when the routing engine
\* answered "Ok".
C15_StagesInOrder ==
    /\ RoutingIssued
           => /\ start_coords /= <<>> /\ destination_coords /= <<>>
              /\ Len(geocode_log) \in {0, 2}
              /\ \A k \in 1..Len(geocode_log) : Hit(geocode_log[k].outcome)
    /\ ~RoutingIssued => route_reply = NoOutcome /\ route_geometry = <<>>
    /\ route_geometry /= <<>> => RoutingOk
    /\ pc = "find" => route_coordinates = simplify_route(route_geometry, tolerance).value
    /\ route_coordinates /= <<>>
           => /\ Len(route_geometry) >= 2
              /\ IsSubsequence(route_coordinates, route_geometry)
    /\ future /= <<>> \/ FanOutIssued
           => /\ RoutingOk
              /\ route_coordinates /= <<>>
              /\ Flatten(segments) = route_coordinates
    /\ \A k \in 1..Len(reverse_log) : future[reverse_log[k].seg].state = "FINISHED"
    /\ exc /= NoExc => ~FanOutIssued /\ route_coordinates = <<>>

\* a request for two place names, both resolved by the provider, has run
\* through every stage and was answered with an enriched POI
C15_Witness ==
    /\ Responded
    /\ response.status_code = 200
    /\ Len(geocode_log) = 2
    /\ RoutingOk
    /\ Len(route_coordinates) < Len(route_geometry)
    /\ reverse_log /= <<>>
    /\ Len(response.petrol_pumps) >= 1

\* C16: with fair scheduling and every call of a service ending within its
\* bounded wait, every request is answered in the end, and answered once:
\* the response, a result or an HTTP error, is never replaced.  A remote
\* that hangs only makes its own call time out.
C16_AnsweredOnce ==
    /\ <>(Responded /\ response /= NoResponse)
    /\ [][response /= NoResponse => response' = response]_vars

\* a request was answered with a result although a spatial query and a
\* reverse-geocoding call had timed out
C16_Witness ==
    /\ Responded
    /\ response.status_code = 200
    /\ \E s \in 1..Len(future) : future[s].outcome.kind = "timeout"
    /\ \E k \in 1..Len(reverse_log) : reverse_log[k].outcome.kind = "timeout"

---------------------------------------------------------------------------
(* The claims about the pool and the loop of find_petrol_pumps, checked    *)
(* under Spec.                                                             *)

\* C17: when find_petrol_pumps returns, whether the queries succeeded,
\* failed or timed out, every submitted task has ended, none is queued or
\* running, and no worker of the pool is occupied.
C17_NoTaskLeftAtReturn ==
    FindReturned
        => /\ Len(future) = Len(segments)
           /\ Running = {}
           /\ \A s \in 1..Len(future) :
                  /\ future[s].state \notin {"PENDING", "RUNNING"}
                  /\ future[s].outcome /= NoOutcome
           /\ yielded = 1..Len(future)
           /\ cur = 0

\* find_petrol_pumps has returned after one query timed out and another
\* was answered with a gateway error
C17_Witness ==
    /\ pc = "returned"
    /\ Len(future) = 2
    /\ future[1].outcome.kind = "timeout"
    /\ future[2].outcome.kind = "reply"
    /\ IsErrorStatus(future[2].outcome.code)

\* a step of a worker: the state of a future changes
WorkerStep == pc = "as_completed" /\ future' /= future

\* C18: the tasks share no mutable state.  A step of a worker changes the
\* future of its own task only, to the result of query_overpass for its
\* own segment, and leaves the list of pumps and the state of the loop
\* alone; petrol_pumps is changed only by the loop of the request thread,
\* and only by appending one entry.
C18_TasksShareNothing ==
    [][ /\ WorkerStep
            => /\ \E s \in 1..Len(future) :
                      /\ Len(future') = Len(future)
                      /\ \A t \in 1..Len(future) : t /= s => future'[t] = future[t]
                      /\ future'[s].state = "FINISHED"
                             => future'[s].result = query_overpass(segments[s], future'[s].outcome)
               /\ UNCHANGED <<petrol_pumps, origin, reverse_log, segments, yielded, cur, idx>>
        /\ petrol_pumps' /= petrol_pumps
            => /\ ~WorkerStep
               /\ cur /= 0
               /\ Len(petrol_pumps') = Len(petrol_pumps) + 1
               /\ SubSeq(petrol_pumps', 1, Len(petrol_pumps)) = petrol_pumps
      ]_vars

\* the request thread is in the middle of the elements of one future, one
\* pump appended, while a worker runs the task of another segment
C18_Witness ==
    /\ cur /= 0
    /\ idx >= 2
    /\ Len(petrol_pumps) >= 1
    /\ \E s \in 1..Len(future) : s /= cur /\ future[s].state = "RUNNING"

\* processing element m of the answer for segment s raised: the element
\* has no lat or no lon, or the exception of the enricher escaped
Raises(s, m) ==
    \/ ~IsPOI(Answered(s)[m])
    \/ \E k \in 1..Len(reverse_log) :
           /\ reverse_log[k].seg = s
           /\ reverse_log[k].elem = m
           /\ geocode_coordinates(Answered(s)[m].lat, Answered(s)[m].lon,
                                  reverse_log[k].outcome).raised /= NoExc

\* C19: an exception raised while the elements of one segment's answer are
\* processed leaves the POIs of that segment appended before it in the
\* result, drops the rest of that segment's elements, leaves the POIs of
\* every other segment alone, and does not leave find_petrol_pumps, which
\* returns normally.
C19_SegmentCutAtException ==
    /\ pc \in {"as_completed", "returned"} => exc = NoExc
    /\ FindReturned
           => \A s \in 1..Len(future) : \A i \in 1..Len(Answered(s)) :
                  InResult(s, i) <=> \A m \in 1..i : ~Raises(s, m)

\* find_petrol_pumps has returned: of an answer whose second element has
\* no lat the first POI is in the list and the third is not, and the two
\* POIs of the other segment are in the list
C19_Witness ==
    /\ pc = "returned"
    /\ \E s, t \in 1..Len(future) :
           /\ s /= t
           /\ Answered(s) = <<Untagged, NoLat, Shell>>
           /\ InResult(s, 1)
           /\ ~InResult(s, 3)
           /\ Answered(t) = <<Shell, Untagged>>
           /\ InResult(t, 1)
           /\ InResult(t, 2)

=============================================================================
